---- MODULE Spec2Model ----
(***************************************************************************)
(* Relative-Grading-Tool: the single-subject grader (src/app.py) and the   *)
(* multi-subject grader with grace and SGPA (src/app1.py).                 *)
(*                                                                         *)
(* Floating-point values are modelled as exact numbers (a + b*sqrt(v))/d,  *)
(* which is closed under everything the boundary formulas do to the mean   *)
(* and the population standard deviation of one pool of integer marks.     *)
(* A missing or unparsable number is NaN: every comparison with it is      *)
(* false, as in numpy/pandas.                                              *)
(***************************************************************************)
EXTENDS Integers, Sequences, FiniteSets, TLC

VARIABLES
    ver,          \* which program runs: "app" (src/app.py) or "app1" (src/app1.py)
    pc,           \* position of the script run
    protocol,     \* the protocol radio of the sidebar
    sidebar,      \* app.py: course type, total marks, ESE maximum
    df,           \* the uploaded table, a sequence of rows
    todo,         \* app1.py: subject groups still to grade
    all_results,  \* graded rows (app.py: processed_df, app1.py: combined_df)
    final_df,     \* app1.py: rows after apply_grace_criteria
    boundaries,   \* the boundaries of each graded batch
    method,       \* app.py: "Relative ..." or "Absolute ..."
    summary       \* app1.py: one calculate_sgpa result per student

vars == <<ver, pc, protocol, sidebar, df, todo, all_results, final_df, boundaries, method, summary>>

-----------------------------------------------------------------------------
(* Exact arithmetic standing for the floats of numpy.                      *)

\* an empty numeric cell of the CSV (pandas reads it as NaN)
NaN == -9999

Abs(i) == IF i < 0 THEN -i ELSE i

Sign(i) == IF i > 0 THEN 1 ELSE IF i < 0 THEN -1 ELSE 0

RECURSIVE GCD(_, _)
GCD(i, j) == IF j = 0 THEN Abs(i) ELSE GCD(j, i % j)

LCM(i, j) == (i * j) \div GCD(i, j)

NaNNum == [nan |-> TRUE, a |-> 0, b |-> 0, v |-> 0, d |-> 1]

\* lowest terms, positive denominator, v = 0 when there is no surd part
Norm(a, b, v, d) ==
    LET g == GCD(GCD(Abs(a), Abs(b)), Abs(d))
        s == IF d < 0 THEN -1 ELSE 1
        bb == IF v = 0 THEN 0 ELSE b
    IN  [nan |-> FALSE, a |-> (s * a) \div g, b |-> (s * bb) \div g,
         v |-> IF bb = 0 THEN 0 ELSE v, d |-> (s * d) \div g]

Rat(a, d) == Norm(a, 0, 0, d)

Num(i) == IF i = NaN THEN NaNNum ELSE Rat(i, 1)

Plus(x, y) ==
    IF x.nan \/ y.nan THEN NaNNum
    ELSE LET d == LCM(x.d, y.d)
         IN  Norm(x.a * (d \div x.d) + y.a * (d \div y.d),
                  x.b * (d \div x.d) + y.b * (d \div y.d),
                  IF x.b # 0 THEN x.v ELSE y.v, d)

\* (p/q) * x
Times(p, q, x) == IF x.nan THEN NaNNum ELSE Norm(p * x.a, p * x.b, x.v, q * x.d)

Minus(x, y) == Plus(x, Times(-1, 1, y))

\* the sign of a + b*sqrt(v), exactly
SurdSign(a, b, v) ==
    IF b = 0 \/ v = 0 THEN Sign(a)
    ELSE IF a = 0 THEN Sign(b)
    ELSE IF Sign(a) = Sign(b) THEN Sign(a)
    ELSE LET l == b * b * v
             r == a * a
         IN  IF l = r THEN 0 ELSE IF l > r THEN Sign(b) ELSE Sign(a)

Sgn(x) == SurdSign(x.a, x.b, x.v)

\* the sign of x - y for two numbers, over their common denominator
Cmp(x, y) ==
    LET d == LCM(x.d, y.d)
    IN  SurdSign(x.a * (d \div x.d) - y.a * (d \div y.d),
                 x.b * (d \div x.d) - y.b * (d \div y.d),
                 IF x.b # 0 THEN x.v ELSE y.v)

Ge(x, y) == ~x.nan /\ ~y.nan /\ Cmp(x, y) >= 0
Gt(x, y) == ~x.nan /\ ~y.nan /\ Cmp(x, y) > 0
Lt(x, y) == ~x.nan /\ ~y.nan /\ Cmp(x, y) < 0
Le(x, y) == ~x.nan /\ ~y.nan /\ Cmp(x, y) <= 0
Eq(x, y) == ~x.nan /\ ~y.nan /\ Cmp(x, y) = 0

-----------------------------------------------------------------------------
(* Text cells: ese_marks is a sequence of characters.                      *)

Digits == <<"0", "1", "2", "3", "4", "5", "6", "7", "8", "9">>

IsDigit(c) == \E i \in 1..10 : Digits[i] = c

DigitVal(c) == (CHOOSE i \in 1..10 : Digits[i] = c) - 1

\* Series.astype(str): an empty cell prints as nan
AsStr(s) == IF s = <<>> THEN <<"n", "a", "n">> ELSE s

UpperChar(c) ==
    CASE c = "a" -> "A"
      [] c = "b" -> "B"
      [] c = "n" -> "N"
      [] c = "x" -> "X"
      [] OTHER -> c

\* Series.str.upper
Upper(s) == [i \in DOMAIN s |-> UpperChar(s[i])]

RECURSIVE ParseDigits(_, _)
ParseDigits(s, acc) ==
    IF s = <<>> THEN acc ELSE ParseDigits(Tail(s), 10 * acc + DigitVal(Head(s)))

\* pd.to_numeric(errors='coerce'): an optional sign and digits, else NaN
ToNumeric(s) ==
    LET body == IF s # <<>> /\ Head(s) = "-" THEN Tail(s) ELSE s
    IN  IF body = <<>> \/ \E i \in DOMAIN body : ~IsDigit(body[i]) THEN NaN
        ELSE IF s[1] = "-" THEN -ParseDigits(body, 0) ELSE ParseDigits(body, 0)

\* Series.fillna(0)
FillNa0(i) == IF i = NaN THEN 0 ELSE i

-----------------------------------------------------------------------------
(* StrictUniversityGrading                                                 *)

None == "None"

GradeOrder == <<"A+", "A", "B+", "B", "C+", "C", "D">>

\* mutant: the Theory pass mark whatever the course type
PassMark_Theory(M, type) == Times(2, 5, Num(M))

\* the pass mark P set by __init__
PassMark(M, type) == IF type = "Practical" THEN Times(1, 2, Num(M)) ELSE Times(2, 5, Num(M))

\* min_ese_threshold / self.ese_threshold = 0.20 * ESE_M
EseThreshold(ESE_M) == Times(1, 5, Num(ESE_M))

\* 0.30 * self.M
MinCutoff(M) == Times(3, 10, Num(M))

RECURSIVE SumSeq(_)
SumSeq(s) == IF s = <<>> THEN 0 ELSE Head(s) + SumSeq(Tail(s))

\* np.mean of a pool of marks (NaN as soon as one mark is NaN)
Mean(marks) ==
    IF Len(marks) = 0 \/ \E i \in DOMAIN marks : marks[i] = NaN THEN NaNNum
    ELSE Rat(SumSeq(marks), Len(marks))

\* np.std: the population standard deviation sqrt(n*Q - S^2)/n
Std(marks) ==
    IF Len(marks) = 0 \/ \E i \in DOMAIN marks : marks[i] = NaN THEN NaNNum
    ELSE LET n == Len(marks)
             S == SumSeq(marks)
             Q == SumSeq([i \in DOMAIN marks |-> marks[i] * marks[i]])
         IN  Norm(0, 1, n * Q - S * S, n)

\* the base formula: X + k/2 sigma for k = 3, 2, 1, 0, -1, -2, -3
BaseBounds(X, sigma) ==
    [g \in {"A+", "A", "B+", "B", "C+", "C", "D"} |->
        CASE g = "A+" -> Plus(X, Times(3, 2, sigma))
          [] g = "A"  -> Plus(X, sigma)
          [] g = "B+" -> Plus(X, Times(1, 2, sigma))
          [] g = "B"  -> X
          [] g = "C+" -> Minus(X, Times(1, 2, sigma))
          [] g = "C"  -> Minus(X, sigma)
          [] g = "D"  -> Minus(X, Times(3, 2, sigma))]

\* raw_D_limit = X - 1.5 * sigma
RawD(marks) == Minus(Mean(marks), Times(3, 2, Std(marks)))

\* app.py: moderation (with C+/C redistributed), else the floor shift, then
\* the cap of A+ at M
RelativeBoundariesApp(marks, M, type) ==
    LET X == Mean(marks)
        sigma == Std(marks)
        raw == RawD(marks)
        P == PassMark(M, type)
        base == BaseBounds(X, sigma)
        delta == Minus(MinCutoff(M), raw)
        step1 ==
            IF Gt(raw, P)
            THEN [base EXCEPT !["C+"] = Minus(X, Times(1, 3, Minus(X, P))),
                              !["C"] = Minus(X, Times(2, 3, Minus(X, P))),
                              !["D"] = P]
            ELSE IF Lt(raw, MinCutoff(M))
            THEN [g \in DOMAIN base |-> IF g = "D" THEN MinCutoff(M) ELSE Plus(base[g], delta)]
            ELSE base
    IN  IF Gt(step1["A+"], Num(M)) THEN [step1 EXCEPT !["A+"] = Num(M)] ELSE step1

\* app1.py: only D is moved
RelativeBoundariesApp1(marks, M, type) ==
    LET raw == RawD(marks)
        P == PassMark(M, type)
        base == BaseBounds(Mean(marks), Std(marks))
    IN  IF Gt(raw, P) THEN [base EXCEPT !["D"] = P]
        ELSE IF Lt(raw, MinCutoff(M)) THEN [base EXCEPT !["D"] = MinCutoff(M)]
        ELSE base

calculate_relative_boundaries(v, marks, M, type) ==
    IF v = "app" THEN RelativeBoundariesApp(marks, M, type)
    ELSE RelativeBoundariesApp1(marks, M, type)

TheoryTable ==
    [g \in {"A+", "A", "B+", "B", "C+", "C", "D"} |->
        CASE g = "A+" -> Num(90) [] g = "A" -> Num(80) [] g = "B+" -> Num(72)
          [] g = "B" -> Num(64) [] g = "C+" -> Num(56) [] g = "C" -> Num(48)
          [] g = "D" -> Num(40)]

PracticalTable ==
    [g \in {"A+", "A", "B+", "B", "C+", "C", "D"} |->
        CASE g = "A+" -> Num(90) [] g = "A" -> Num(80) [] g = "B+" -> Num(70)
          [] g = "B" -> Num(62) [] g = "C+" -> Num(58) [] g = "C" -> Num(54)
          [] g = "D" -> Num(50)]

get_absolute_boundaries(type) == IF type = "Theory" THEN TheoryTable ELSE PracticalTable

RECURSIVE ScanGrades(_, _, _)
ScanGrades(m, bounds, i) ==
    IF i > Len(GradeOrder) THEN "F"
    ELSE IF Ge(m, bounds[GradeOrder[i]]) THEN GradeOrder[i]
    ELSE ScanGrades(m, bounds, i + 1)

\* variant: the scan starts at the second grade
assign_grade_SkipFirst(marks, bounds) == ScanGrades(Num(marks), bounds, 2)

\* first cutoff, from A+ down, that the marks reach; else F
assign_grade(marks, bounds) == ScanGrades(Num(marks), bounds, 1)

\* the threshold of the formula selection, count >= 30
StatMin == 30

\* the attendance hurdle, 75 percent
MinAttendance == 75

ExclusiveName(v) == IF v = "app" THEN "Protocol A (Exclusive)" ELSE "Protocol A (Strict)"

\* results['ese_marks_numeric']
EseNumeric(r) == FillNa0(ToNumeric(r.ese_marks))

\* step 1: attendance < 75 gives I
GradeAttendance(r) == IF Lt(Num(r.attendance), Num(MinAttendance)) THEN "I" ELSE None

\* mask_absent
IsAbsent(r) == Upper(AsStr(r.ese_marks)) = <<"A", "B">>

\* mutant: AB gives Z even where attendance already gave I
GradeAbsent_ZFirst(r) == IF IsAbsent(r) THEN "Z" ELSE GradeAttendance(r)

\* step 2: AB gives Z where no grade is set
GradeAbsent(r) == IF IsAbsent(r) /\ GradeAttendance(r) = None THEN "Z" ELSE GradeAttendance(r)

\* step 3: numeric ESE below the threshold gives F where no grade is set
GradeHurdles(r, ESE_M) ==
    IF GradeAbsent(r) = None /\ Lt(Num(EseNumeric(r)), EseThreshold(ESE_M)) THEN "F"
    ELSE GradeAbsent(r)

\* stats_mask
StatsMask(v, proto, r, ESE_M) ==
    IF proto = ExclusiveName(v)
    THEN Ge(Num(r.attendance), Num(MinAttendance)) /\ Ge(Num(EseNumeric(r)), EseThreshold(ESE_M))
    ELSE Ge(Num(r.attendance), Num(MinAttendance))

RECURSIVE PoolMarks(_, _, _, _)
\* regular_students: the marks of the rows the mask selects, in row order
PoolMarks(v, proto, rows, ESE_M) ==
    IF rows = <<>> THEN <<>>
    ELSE (IF StatsMask(v, proto, Head(rows), ESE_M) THEN <<Head(rows).marks>> ELSE <<>>)
         \o PoolMarks(v, proto, Tail(rows), ESE_M)

\* mutant: the statistical formulas only above 30 records
SelectBoundaries_Above(v, pool, M, type) ==
    IF Len(pool) > StatMin THEN calculate_relative_boundaries(v, pool, M, type)
    ELSE get_absolute_boundaries(type)

\* step 5: the statistical formulas from 30 records on, else the fixed table
SelectBoundaries(v, pool, M, type) ==
    IF Len(pool) >= StatMin THEN calculate_relative_boundaries(v, pool, M, type)
    ELSE get_absolute_boundaries(type)

SelectMethod(pool) ==
    IF Len(pool) >= StatMin THEN "Relative Grading (Statistical)"
    ELSE "Absolute Grading (Count < 30)"

\* step 6: boundary lookup only where no grade is set
FinalGrade(r, ESE_M, bounds) ==
    IF GradeHurdles(r, ESE_M) = None THEN assign_grade(r.marks, bounds)
    ELSE GradeHurdles(r, ESE_M)

\* process_results of app.py: the graded rows, the boundaries and the method
process_results_app(M, ESE_M, type, proto, rows) ==
    LET pool == PoolMarks("app", proto, rows, ESE_M)
        bounds == SelectBoundaries("app", pool, M, type)
    IN  [results |-> [i \in DOMAIN rows |->
                        [id |-> rows[i].id, marks |-> rows[i].marks,
                         attendance |-> rows[i].attendance, ese_marks |-> rows[i].ese_marks,
                         Final_Grade |-> FinalGrade(rows[i], ESE_M, bounds)]],
         boundaries |-> bounds,
         method |-> SelectMethod(pool)]

\* process_results of app1.py: the graded rows carry boundary_D and the threshold
process_results_app1(M, ESE_M, type, proto, rows) ==
    LET pool == PoolMarks("app1", proto, rows, ESE_M)
        bounds == SelectBoundaries("app1", pool, M, type)
    IN  [results |-> [i \in DOMAIN rows |->
                        [student_id |-> rows[i].student_id,
                         subject_code |-> rows[i].subject_code,
                         credits |-> rows[i].credits, marks |-> rows[i].marks,
                         attendance |-> rows[i].attendance, ese_marks |-> rows[i].ese_marks,
                         total_max |-> rows[i].total_max, ese_max |-> rows[i].ese_max,
                         course_type |-> rows[i].course_type,
                         Final_Grade |-> FinalGrade(rows[i], ESE_M, bounds),
                         boundary_D |-> bounds["D"],
                         min_ese_required |-> EseThreshold(ESE_M)]],
         boundaries |-> bounds]

-----------------------------------------------------------------------------
(* Grace and SGPA (src/app1.py)                                            *)

\* an empty student_id or subject_code cell
NoId == NaN
NoCode == ""

\* subject codes in their sort order
SubjectCodes == <<"CS101", "CS102", "CS103">>

GRADE_POINTS(g) ==
    CASE g = "A+" -> 10 [] g = "A" -> 9 [] g = "B+" -> 8 [] g = "B" -> 7
      [] g = "C+" -> 6 [] g = "C" -> 5 [] g = "D" -> 4 [] g = "D*" -> 4
      [] g = "F" -> 0 [] g = "I" -> 0 [] g = "Z" -> 0

RECURSIVE SortedIds(_)
\* group keys of groupby('student_id'): ascending
SortedIds(S) ==
    IF S = {} THEN <<>>
    ELSE LET m == CHOOSE x \in S : \A y \in S : x <= y
         IN  <<m>> \o SortedIds(S \ {m})

\* groupby drops the rows whose key is missing
StudentKeys(rows) == SortedIds({rows[i].student_id : i \in DOMAIN rows} \ {NoId})

SubjectKeys(rows) ==
    SelectSeq(SubjectCodes, LAMBDA c : \E i \in DOMAIN rows : rows[i].subject_code = c)

\* mutant: the ESE cleared in some subject instead of all
ClearedAllEse_Any(group) ==
    \E i \in DOMAIN group :
        Ge(Num(FillNa0(ToNumeric(group[i].ese_marks))), group[i].min_ese_required)

\* cleared_all_ese: numeric ese_marks >= min_ese_required in every row of the group
ClearedAllEse(group) ==
    \A i \in DOMAIN group :
        Ge(Num(FillNa0(ToNumeric(group[i].ese_marks))), group[i].min_ese_required)

\* grace_mask: F and 0 < boundary_D - marks <= 3
GraceMask(r) ==
    /\ r.Final_Grade = "F"
    /\ Le(Minus(r.boundary_D, Num(r.marks)), Num(3))
    /\ Gt(Minus(r.boundary_D, Num(r.marks)), Num(0))

GraceCount(group) == Cardinality({i \in DOMAIN group : GraceMask(group[i])})

\* mutant: no cap on the number of graced subjects
GraceApplies_NoCap(group) == ClearedAllEse(group) /\ 0 < GraceCount(group)

\* whether the group's candidates are upgraded
GraceApplies(group) ==
    ClearedAllEse(group) /\ 0 < GraceCount(group) /\ GraceCount(group) <= 2

\* the flag a row carries into a run: the column is absent before the first run
WasGraced(r) == "is_graced" \in DOMAIN r /\ r.is_graced

\* variant: every run writes the flag afresh from its own mask
GracedRow_ResetFlag(r, graced) ==
    LET g == IF graced THEN "D*" ELSE r.Final_Grade
    IN  [student_id |-> r.student_id, subject_code |-> r.subject_code,
         credits |-> r.credits, marks |-> r.marks, attendance |-> r.attendance,
         ese_marks |-> r.ese_marks, total_max |-> r.total_max, ese_max |-> r.ese_max,
         course_type |-> r.course_type, boundary_D |-> r.boundary_D,
         min_ese_required |-> r.min_ese_required,
         Final_Grade |-> g, is_graced |-> graced, Grade_Point |-> GRADE_POINTS(g)]

\* a row after a run: the run only ever sets the flag on the rows of its mask,
\* every other row keeps what it had; Grade_Point is mapped from the grade again
GracedRow(r, graced) ==
    LET g == IF graced THEN "D*" ELSE r.Final_Grade
    IN  [student_id |-> r.student_id, subject_code |-> r.subject_code,
         credits |-> r.credits, marks |-> r.marks, attendance |-> r.attendance,
         ese_marks |-> r.ese_marks, total_max |-> r.total_max, ese_max |-> r.ese_max,
         course_type |-> r.course_type, boundary_D |-> r.boundary_D,
         min_ese_required |-> r.min_ese_required,
         Final_Grade |-> g, is_graced |-> graced \/ WasGraced(r), Grade_Point |-> GRADE_POINTS(g)]

GraceGroup(group) ==
    [i \in DOMAIN group |-> GracedRow(group[i], GraceApplies(group) /\ GraceMask(group[i]))]

RECURSIVE GraceGroups(_, _)
GraceGroups(rows, keys) ==
    IF keys = <<>> THEN <<>>
    ELSE GraceGroup(SelectSeq(rows, LAMBDA r : r.student_id = Head(keys)))
         \o GraceGroups(rows, Tail(keys))

\* final_df: the groups of the students, concatenated in key order
apply_grace_criteria(rows) == GraceGroups(rows, StudentKeys(rows))

\* mutant: truncation to 2 decimal places
Round2_Floor(p, c) == (100 * p) \div c

\* round(x, 2) of x = p/c, in hundredths; a tie goes to the even hundredth
Round2(p, c) ==
    LET n == 100 * p
        q == n \div c
        r == n % c
    IN  IF 2 * r < c THEN q
        ELSE IF 2 * r > c THEN q + 1
        ELSE IF q % 2 = 0 THEN q ELSE q + 1

IsFail(g) == g \in {"F", "I", "Z"}

\* calculate_sgpa of one student's rows; SGPA is held in hundredths
calculate_sgpa(student_df) ==
    LET total_credits == SumSeq([i \in DOMAIN student_df |-> student_df[i].credits])
        passed == SelectSeq(student_df, LAMBDA r : ~IsFail(r.Final_Grade))
        failed == SelectSeq(student_df, LAMBDA r : IsFail(r.Final_Grade))
        total_points ==
            SumSeq([i \in DOMAIN student_df |-> student_df[i].credits * student_df[i].Grade_Point])
    IN  [student_id |-> student_df[1].student_id,
         Earned_Credits |-> SumSeq([i \in DOMAIN passed |-> passed[i].credits]),
         SGPA |-> IF total_credits > 0 THEN Round2(total_points, total_credits) ELSE 0,
         Failed_Subjects |-> [i \in DOMAIN failed |-> failed[i].subject_code],
         Graced_Count |-> Cardinality({i \in DOMAIN student_df : student_df[i].is_graced})]

RECURSIVE SgpaGroups(_, _)
SgpaGroups(rows, keys) ==
    IF keys = <<>> THEN <<>>
    ELSE <<calculate_sgpa(SelectSeq(rows, LAMBDA r : r.student_id = Head(keys)))>>
         \o SgpaGroups(rows, Tail(keys))

\* summary_df = final_df.groupby('student_id').apply(calculate_sgpa)
Summarise(rows) == SgpaGroups(rows, StudentKeys(rows))

-----------------------------------------------------------------------------
(* The uploaded tables                                                     *)

\* largest cohort of regular students put into one batch
MaxCohort == 30

\* a cohort of n students: the first (n * num) \div den score hi, the rest lo
CohortPatterns ==
    { [hi |-> 90, lo |-> 90, num |-> 1, den |-> 1],
      [hi |-> 100, lo |-> 0, num |-> 4, den |-> 5],
      [hi |-> 45, lo |-> 35, num |-> 1, den |-> 2],
      [hi |-> 60, lo |-> 20, num |-> 1, den |-> 2] }

\* no cohort, one just too small for statistics, and every pattern from 30 on
CohortOptions ==
    { [n |-> n, pat |-> CHOOSE q \in CohortPatterns : q.hi = 90] : n \in {0, StatMin - 1} }
    \cup { [n |-> n, pat |-> q] : n \in StatMin..MaxCohort, q \in CohortPatterns }

CohortMark(c, i) == IF i <= (c.n * c.pat.num) \div c.pat.den THEN c.pat.hi ELSE c.pat.lo

AttVals == {60, 90, 120, NaN}
EseVals == {<<"4", "0">>, <<"5">>, <<"A", "B">>, <<"a", "B">>, <<"x">>, <<>>}
MarkVals == {28, 38, 82, 150, NaN}

\* a CSV row of app.py
AppRow(id, marks, attendance, ese) ==
    [id |-> id, marks |-> marks, attendance |-> attendance, ese_marks |-> ese]

AppCohort(c) == [i \in 1..c.n |-> AppRow(100 + i, CohortMark(c, i), 90, <<"4", "0">>)]

\* the template CSV offered for download: five students
sample_data ==
    << AppRow(1, 82, 90, <<"4", "0">>), AppRow(2, 65, 85, <<"3", "0">>),
       AppRow(3, 45, 80, <<"A", "B">>), AppRow(4, 32, 76, <<"1", "0">>),
       AppRow(5, 91, 95, <<"5", "0">>) >>

AppOthers == { AppRow(2, 65, 90, <<"3", "0">>), AppRow(2, 70, 90, <<"5">>) }

\* a CSV row of app1.py
App1Row(sid, code, credits, marks, attendance, ese, total_max, ese_max, type) ==
    [student_id |-> sid, subject_code |-> code, credits |-> credits, marks |-> marks,
     attendance |-> attendance, ese_marks |-> ese, total_max |-> total_max,
     ese_max |-> ese_max, course_type |-> type]

\* the course of each subject code: total marks, ESE maximum, type, credits
Course(code) ==
    CASE code = "CS101" -> [total_max |-> 100, ese_max |-> 60, type |-> "Theory", credits |-> 4]
      [] code = "CS102" -> [total_max |-> 100, ese_max |-> 60, type |-> "Practical", credits |-> 3]
      [] OTHER -> [total_max |-> 50, ese_max |-> 30, type |-> "Theory", credits |-> 2]

SubjectRow(sid, code, k) ==
    App1Row(sid, code, Course(code).credits, k.marks, k.attendance, k.ese,
            Course(code).total_max, Course(code).ese_max, Course(code).type)

\* cutoff D of the fixed table of a subject
TableD(code) == IF Course(code).type = "Theory" THEN 40 ELSE 50

Kind(marks, attendance, ese) == [marks |-> marks, attendance |-> attendance, ese |-> ese]

\* what the student under study may have in the first subject
FirstKinds ==
    { Kind(82, 90, <<"4", "0">>), Kind(38, 90, <<"4", "0">>), Kind(28, 90, <<"4", "0">>),
      Kind(38, 90, <<"A", "B">>), Kind(38, 60, <<"4", "0">>), Kind(38, 90, <<"x">>) }

\* and in every other subject, relative to the cutoff D of its fixed table
OtherKinds(code) ==
    { Kind(TableD(code) - 3, 90, <<"4", "0">>), Kind(TableD(code) - 4, 90, <<"4", "0">>),
      Kind(82, 90, <<"4", "0">>), Kind(TableD(code) - 3, 90, <<"5">>) }

KindsOf(code) == IF code = SubjectCodes[1] THEN FirstKinds ELSE OtherKinds(code)

App1Cohort(c, type) ==
    [i \in 1..c.n |->
        App1Row(100 + i, SubjectCodes[1], 4, CohortMark(c, i), 90, <<"4", "0">>, 100, 60, type)]

\* a further row: none, one without student_id, one without subject_code,
\* or a second student, 2 marks short of D in a subject that carries no credits
Strays ==
    { <<>>,
      <<App1Row(NoId, "CS102", 3, 70, 90, <<"4", "0">>, 100, 60, "Practical")>>,
      <<App1Row(2, NoCode, 3, 70, 90, <<"4", "0">>, 100, 60, "Practical")>>,
      <<App1Row(2, "CS102", 0, 48, 90, <<"4", "0">>, 100, 60, "Practical")>> }

\* tables on which pd.concat finds nothing to concatenate
Unusable ==
    { <<App1Row(2, NoCode, 3, 70, 90, <<"4", "0">>, 100, 60, "Practical")>>,
      <<App1Row(NoId, "CS102", 3, 70, 90, <<"4", "0">>, 100, 60, "Practical")>> }

Radio(v) == {ExclusiveName(v), "Protocol B (Inclusive)"}

NoBounds == <<>>

-----------------------------------------------------------------------------
(* The script runs                                                         *)

Init ==
    /\ ver \in {"app", "app1"}
    /\ pc = "start"
    /\ protocol \in Radio(ver)
    /\ sidebar \in IF ver = "app"
                    THEN { [course_type |-> t, max_marks |-> 100, ese_max_marks |-> 60]
                             : t \in {"Theory", "Practical"} }
                    ELSE { [course_type |-> "Theory", max_marks |-> 100, ese_max_marks |-> 60] }
    /\ df = <<>>
    /\ todo = <<>>
    /\ all_results = <<>>
    /\ final_df = <<>>
    /\ boundaries = NoBounds
    /\ method = None
    /\ summary = <<>>

\* app.py: a CSV with id, marks, attendance, ese_marks is uploaded
UploadApp ==
    /\ ver = "app" /\ pc = "start"
    /\ \/ \E a \in AttVals, e \in EseVals, m \in MarkVals, o \in AppOthers, c \in CohortOptions :
             df' = <<AppRow(1, m, a, e), o>> \o AppCohort(c)
       \/ df' = sample_data
    /\ pc' = "uploaded"
    /\ UNCHANGED <<ver, protocol, sidebar, todo, all_results, final_df, boundaries, method, summary>>

\* app.py: engine.process_results(df) with the sidebar's configuration
ProcessResults ==
    /\ ver = "app" /\ pc = "uploaded"
    /\ \E out \in {process_results_app(sidebar.max_marks, sidebar.ese_max_marks,
                                       sidebar.course_type, protocol, df)} :
           /\ all_results' = out.results
           /\ boundaries' = <<[code |-> NoCode, bounds |-> out.boundaries]>>
           /\ method' = out.method
    /\ pc' = "done"
    /\ UNCHANGED <<ver, protocol, sidebar, df, todo, final_df, summary>>

\* app1.py: a semester CSV is uploaded and grouped by subject_code
UploadApp1 ==
    /\ ver = "app1" /\ pc = "start"
    /\ \/ \E k \in [1..Len(SubjectCodes) -> FirstKinds \cup UNION {OtherKinds(SubjectCodes[j]) : j \in 2..Len(SubjectCodes)}],
              c \in CohortOptions, t \in {"Theory", "Practical"}, s \in Strays :
             /\ \A j \in 1..Len(SubjectCodes) : k[j] \in KindsOf(SubjectCodes[j])
             /\ t = "Practical" => c.n >= StatMin /\ c.pat.hi = 90
             /\ s # <<>> => c.n = 0
             /\ df' = [j \in 1..Len(SubjectCodes) |-> SubjectRow(1, SubjectCodes[j], k[j])]
                       \o s \o App1Cohort(c, t)
       \/ df' \in Unusable
    /\ todo' = SubjectKeys(df')
    /\ pc' = "grading"
    /\ UNCHANGED <<ver, protocol, sidebar, all_results, final_df, boundaries, method, summary>>

\* app1.py: one turn of the loop over the subject groups
GradeSubject ==
    /\ ver = "app1" /\ pc = "grading" /\ todo # <<>>
    /\ \E code \in {Head(todo)} :
       \E sub_df \in {SelectSeq(df, LAMBDA r : r.subject_code = code)} :
       \E out \in {process_results_app1(sub_df[1].total_max, sub_df[1].ese_max,
                                         sub_df[1].course_type, protocol, sub_df)} :
           /\ all_results' = all_results \o out.results
           /\ boundaries' = Append(boundaries, [code |-> code, bounds |-> out.boundaries])
    /\ todo' = Tail(todo)
    /\ UNCHANGED <<ver, pc, protocol, sidebar, df, final_df, method, summary>>

\* app1.py: pd.concat of the graded groups, then apply_grace_criteria
ApplyGrace ==
    /\ ver = "app1" /\ pc = "grading" /\ todo = <<>>
    /\ all_results # <<>> /\ StudentKeys(all_results) # <<>>
    /\ final_df' = apply_grace_criteria(all_results)
    /\ pc' = "graced"
    /\ UNCHANGED <<ver, protocol, sidebar, df, todo, all_results, boundaries, method, summary>>

\* app1.py: pd.concat raises on an empty list of groups
ConcatFails ==
    /\ ver = "app1" /\ pc = "grading" /\ todo = <<>>
    /\ all_results = <<>> \/ StudentKeys(all_results) = <<>>
    /\ pc' = "error"
    /\ UNCHANGED <<ver, protocol, sidebar, df, todo, all_results, final_df, boundaries, method, summary>>

\* app1.py: final_df.groupby('student_id').apply(calculate_sgpa)
\* apply_grace_criteria applied once more, to its own output
ReapplyGrace ==
    /\ ver = "app1" /\ pc \in {"graced", "regraced"}
    /\ final_df' = apply_grace_criteria(final_df)
    /\ pc' = "regraced"
    /\ UNCHANGED <<ver, protocol, sidebar, df, todo, all_results, boundaries, method, summary>>

CalculateSgpa ==
    /\ ver = "app1" /\ pc \in {"graced", "regraced"}
    /\ summary' = Summarise(final_df)
    /\ pc' = "done"
    /\ UNCHANGED <<ver, protocol, sidebar, df, todo, all_results, final_df, boundaries, method>>

Next ==
    \/ UploadApp
    \/ ProcessResults
    \/ UploadApp1
    \/ GradeSubject
    \/ ApplyGrace
    \/ ConcatFails
    \/ ReapplyGrace
    \/ CalculateSgpa

Spec == Init /\ [][Next]_vars

-----------------------------------------------------------------------------
(* What the claims speak about                                             *)

\* the rows, total marks, ESE maximum and course type of a graded batch
BatchRows(b) == IF ver = "app" THEN df ELSE SelectSeq(df, LAMBDA r : r.subject_code = b.code)
BatchM(b) == IF ver = "app" THEN sidebar.max_marks ELSE BatchRows(b)[1].total_max
BatchEseMax(b) == IF ver = "app" THEN sidebar.ese_max_marks ELSE BatchRows(b)[1].ese_max
BatchType(b) == IF ver = "app" THEN sidebar.course_type ELSE BatchRows(b)[1].course_type

IsExclusive == protocol \in {"Protocol A (Exclusive)", "Protocol A (Strict)"}

\* numeric ese_marks, AB and anything non-numeric counting as 0
EseValue(r) == IF ToNumeric(r.ese_marks) = NaN THEN 0 ELSE ToNumeric(r.ese_marks)

AnyCaseAB == {<<"A", "B">>, <<"a", "b">>, <<"A", "b">>, <<"a", "B">>}

LowAttendance(r) == r.attendance # NaN /\ r.attendance < 75

\* ese_marks below 0.20 * ESE_M, in integers
BelowEse(r, ese_max) == 5 * EseValue(r) < ese_max

\* the statistics-eligible pool as the specification words it
InPool(r, ese_max) ==
    /\ r.attendance # NaN /\ r.attendance >= 75
    /\ IsExclusive => ~BelowEse(r, ese_max)

Pool(b) ==
    LET sel == SelectSeq(BatchRows(b), LAMBDA r : InPool(r, BatchEseMax(b)))
    IN  [i \in DOMAIN sel |-> sel[i].marks]

ValidPool(b) == \A i \in DOMAIN Pool(b) : Pool(b)[i] # NaN /\ Pool(b)[i] >= 0 /\ Pool(b)[i] <= BatchM(b)

NonIncreasing(bounds) ==
    \A i \in 1..(Len(GradeOrder) - 1) : Ge(bounds[GradeOrder[i]], bounds[GradeOrder[i + 1]])

\* C1: every computed BoundarySet is non-increasing in the order A+, A, B+, B,
\* C+, C, D (stated here for pools of valid marks only, 0 <= marks <= M).
C1_BoundariesNonIncreasing ==
    \A i \in DOMAIN boundaries :
        ValidPool(boundaries[i]) => NonIncreasing(boundaries[i].bounds)

\* the batch a graded row belongs to
BatchOfRow(r) ==
    IF ver = "app" THEN boundaries[1]
    ELSE boundaries[CHOOSE i \in DOMAIN boundaries : boundaries[i].code = r.subject_code]

\* C2: the grade of a record is decided by the first rule that applies:
\* attendance < 75 gives I; else ese_marks AB in any letter case gives Z; else
\* numeric ese_marks below 0.20 * ESE_M gives F; only a record that passes all
\* three is graded by boundary lookup.
C2_HurdlePriority ==
    \A i \in DOMAIN all_results :
        LET r == all_results[i]
            b == BatchOfRow(r)
        IN  /\ LowAttendance(r) => r.Final_Grade = "I"
            /\ ~LowAttendance(r) /\ r.ese_marks \in AnyCaseAB => r.Final_Grade = "Z"
            /\ ~LowAttendance(r) /\ r.ese_marks \notin AnyCaseAB /\ BelowEse(r, BatchEseMax(b))
                   => r.Final_Grade = "F"
            /\ ~LowAttendance(r) /\ r.ese_marks \notin AnyCaseAB /\ ~BelowEse(r, BatchEseMax(b))
                   => /\ r.Final_Grade \notin {"I", "Z"}
                      /\ r.Final_Grade = assign_grade(r.marks, b.bounds)

\* C2 witness: a graded batch holds a record with low attendance and AB graded I,
\* next to a record stopped by the ESE hurdle although its marks would pass.
C2_Witness ==
    /\ pc = "done" /\ ver = "app"
    /\ \E i \in DOMAIN all_results :
          /\ LowAttendance(all_results[i]) /\ all_results[i].ese_marks \in AnyCaseAB
          /\ all_results[i].Final_Grade = "I"
    /\ \E i \in DOMAIN all_results :
          /\ ~LowAttendance(all_results[i]) /\ BelowEse(all_results[i], sidebar.ese_max_marks)
          /\ all_results[i].Final_Grade = "F"
          /\ assign_grade(all_results[i].marks, boundaries[1].bounds) # "F"

FixedTable(type) ==
    IF type = "Theory"
    THEN [g \in {"A+", "A", "B+", "B", "C+", "C", "D"} |->
            CASE g = "A+" -> 90 [] g = "A" -> 80 [] g = "B+" -> 72 [] g = "B" -> 64
              [] g = "C+" -> 56 [] g = "C" -> 48 [] g = "D" -> 40]
    ELSE [g \in {"A+", "A", "B+", "B", "C+", "C", "D"} |->
            CASE g = "A+" -> 90 [] g = "A" -> 80 [] g = "B+" -> 70 [] g = "B" -> 62
              [] g = "C+" -> 58 [] g = "C" -> 54 [] g = "D" -> 50]

IsFixedTable(bounds, type) == \A g \in DOMAIN bounds : bounds[g] = Rat(FixedTable(type)[g], 1)

\* C5: the statistical boundaries are used if and only if the eligible pool
\* (attendance >= 75, and under the Exclusive protocol numeric ese_marks >=
\* threshold) has at least 30 records; a smaller pool gets exactly the fixed
\* table of the course type.
C5_MethodSelection ==
    \A i \in DOMAIN boundaries :
        LET b == boundaries[i]
        IN  /\ Len(Pool(b)) >= 30 =>
                  /\ b.bounds = calculate_relative_boundaries(ver, Pool(b), BatchM(b), BatchType(b))
                  /\ ver = "app" => method = "Relative Grading (Statistical)"
            /\ Len(Pool(b)) < 30 =>
                  /\ IsFixedTable(b.bounds, BatchType(b))
                  /\ ver = "app" => method = "Absolute Grading (Count < 30)"

\* C5 witness: a batch of more than 30 rows whose pool has exactly 30 records,
\* graded statistically, so the boundaries are not the fixed table.
C5_Witness ==
    \E i \in DOMAIN boundaries :
        /\ Len(BatchRows(boundaries[i])) > 30
        /\ Len(Pool(boundaries[i])) = 30
        /\ ~IsFixedTable(boundaries[i].bounds, BatchType(boundaries[i]))

\* the pass mark of the claims: 0.5 * M for Practical, 0.4 * M for Theory
ClaimP(b) == IF BatchType(b) = "Practical" THEN Rat(BatchM(b), 2) ELSE Rat(2 * BatchM(b), 5)

\* 0.30 * M
ClaimFloor(b) == Rat(3 * BatchM(b), 10)

Statistical(b) == Len(Pool(b)) >= 30

\* C6: in the statistical method, when raw D = mean - 1.5 sigma is below
\* 0.30 * M, the final D equals 0.30 * M and every boundary equals its base
\* value plus the same delta = 0.30 * M - raw D (stated here for the batches
\* whose shifted A+ stays within M, where the cap of A+ plays no part).
C6_FloorShiftsAll ==
    \A i \in DOMAIN boundaries :
        LET b == boundaries[i]
            raw == RawD(Pool(b))
            base == BaseBounds(Mean(Pool(b)), Std(Pool(b)))
            delta == Minus(ClaimFloor(b), raw)
        IN  /\ Statistical(b) /\ ValidPool(b) /\ Lt(raw, ClaimFloor(b))
            /\ Le(Plus(base["A+"], delta), Num(BatchM(b)))
            => /\ Eq(b.bounds["D"], ClaimFloor(b))
               /\ \A g \in DOMAIN b.bounds : Eq(b.bounds[g], Plus(base[g], delta))

\* C7: in the statistical method, when raw D exceeds the pass mark P the final
\* D equals P exactly, and the D of a statistical BoundarySet never exceeds P.
C7_ModerationCapsD ==
    \A i \in DOMAIN boundaries :
        LET b == boundaries[i]
        IN  Statistical(b) =>
                /\ Gt(RawD(Pool(b)), ClaimP(b)) => b.bounds["D"] = ClaimP(b)
                /\ ~Gt(b.bounds["D"], ClaimP(b))

\* C7 witness: a statistical batch whose raw D lies above P and whose D is P.
C7_Witness ==
    \E i \in DOMAIN boundaries :
        /\ Statistical(boundaries[i])
        /\ Std(Pool(boundaries[i])).b # 0
        /\ Gt(RawD(Pool(boundaries[i])), ClaimP(boundaries[i]))
        /\ boundaries[i].bounds["D"] = ClaimP(boundaries[i])

-----------------------------------------------------------------------------
(* Grace, SGPA and the whole pipeline (src/app1.py)                        *)

AfterGrace == ver = "app1" /\ pc \in {"graced", "regraced", "done"}

Students == {all_results[i].student_id : i \in DOMAIN all_results} \ {NoId}

\* the graded rows of a student before grace, and the same rows after it
Before(sid) == SelectSeq(all_results, LAMBDA r : r.student_id = sid)
After(sid) == SelectSeq(final_df, LAMBDA r : r.student_id = sid)

\* the cutoff D of the subject of a graded row
CutoffD(r) == BatchOfRow(r).bounds["D"]

\* a candidate: grade F with 0 < boundary_D - marks <= 3
Candidate(r) ==
    /\ r.Final_Grade = "F"
    /\ Gt(CutoffD(r), Num(r.marks))
    /\ Le(CutoffD(r), Num(r.marks + 3))

Candidates(sid) == {i \in DOMAIN Before(sid) : Candidate(Before(sid)[i])}

\* numeric ese_marks meets the subject threshold in every subject
PassedEveryEse(sid) ==
    \A i \in DOMAIN Before(sid) : ~BelowEse(Before(sid)[i], Before(sid)[i].ese_max)

C4_NoGraceOnEseFailure ==
    AfterGrace =>
        \A sid \in Students :
            ~PassedEveryEse(sid) =>
                /\ Len(After(sid)) = Len(Before(sid))
                /\ \A i \in DOMAIN After(sid) :
                      /\ After(sid)[i].Final_Grade # "D*"
                      /\ After(sid)[i].subject_code = Before(sid)[i].subject_code
                      /\ After(sid)[i].Final_Grade = Before(sid)[i].Final_Grade

\* C4 witness: a student absent (AB) in one subject has one or two candidate
\* subjects elsewhere, and they are still F after grace.
C4_Witness ==
    /\ AfterGrace
    /\ \E sid \in Students :
          /\ \E i \in DOMAIN Before(sid) : Before(sid)[i].ese_marks \in AnyCaseAB
          /\ Cardinality(Candidates(sid)) \in {1, 2}
          /\ \A i \in Candidates(sid) : After(sid)[i].Final_Grade = "F"

\* grade points as the specification lists them
Points(g) ==
    CASE g = "A+" -> 10 [] g = "A" -> 9 [] g = "B+" -> 8 [] g = "B" -> 7 [] g = "C+" -> 6
      [] g = "C" -> 5 [] g = "D" -> 4 [] g = "D*" -> 4 [] OTHER -> 0

SumCredits(rows) == SumSeq([i \in DOMAIN rows |-> rows[i].credits])
SumPoints(rows) == SumSeq([i \in DOMAIN rows |-> rows[i].credits * Points(rows[i].Final_Grade)])

\* C8: SGPA is sum(credits * grade point) / sum(credits) rounded to 2 decimal
\* places (the nearest hundredth), and 0 when the sum of credits is 0.
C8_Sgpa ==
    ver = "app1" /\ pc = "done" =>
        /\ {summary[i].student_id : i \in DOMAIN summary} = Students
        /\ \A i \in DOMAIN summary :
              LET rows == After(summary[i].student_id)
                  c == SumCredits(rows)
                  h == summary[i].SGPA
              IN  /\ c = 0 => h = 0
                  /\ c > 0 => 2 * Abs(h * c - 100 * SumPoints(rows)) <= c

\* C8 witness: one student without credits has SGPA 0, another has an SGPA that
\* is not a whole number of hundredths before rounding and counts a D*.
C8_Witness ==
    /\ ver = "app1" /\ pc = "done"
    /\ \E i \in DOMAIN summary :
          SumCredits(After(summary[i].student_id)) = 0 /\ summary[i].SGPA = 0
    /\ \E i \in DOMAIN summary :
          LET rows == After(summary[i].student_id)
          IN  /\ SumCredits(rows) > 0
              /\ (100 * SumPoints(rows)) % SumCredits(rows) # 0
              /\ \E j \in DOMAIN rows : rows[j].Final_Grade = "D*"
              /\ summary[i].SGPA > 0

AllGrades == {"A+", "A", "B+", "B", "C+", "C", "D", "D*", "F", "I", "Z"}

\* whether an output row is the input row, graded
SameRecord(in, out) ==
    /\ out.student_id = in.student_id /\ out.subject_code = in.subject_code
    /\ out.credits = in.credits /\ out.marks = in.marks
    /\ out.attendance = in.attendance /\ out.ese_marks = in.ese_marks

\* C9: after the whole pipeline every input record appears exactly once in the
\* output, with one Final_Grade of the eleven grades.
C9_EveryRecordGraded ==
    AfterGrace =>
        \A i \in DOMAIN df :
            /\ Cardinality({j \in DOMAIN final_df : SameRecord(df[i], final_df[j])}) = 1
            /\ \A j \in DOMAIN final_df :
                  SameRecord(df[i], final_df[j]) => final_df[j].Final_Grade \in AllGrades

\* a record with a missing field, ese_marks neither numeric nor AB, or marks or
\* attendance out of range
InvalidRecord(r, M) ==
    \/ r.attendance = NaN \/ r.marks = NaN
    \/ r.ese_marks \notin AnyCaseAB /\ ToNumeric(r.ese_marks) = NaN
    \/ r.attendance # NaN /\ (r.attendance < 0 \/ r.attendance > 100)
    \/ r.marks # NaN /\ (r.marks < 0 \/ r.marks > M)

\* C10: a record with an invalid field ends with a grade in {I, Z, F}, never
\* with a passing grade.
C10_InvalidDegrades ==
    ver = "app" /\ pc = "done" =>
        \A i \in DOMAIN all_results :
            InvalidRecord(all_results[i], sidebar.max_marks) =>
                all_results[i].Final_Grade \in {"I", "Z", "F"}

\* ---------------------------------------------------------------------------
\* C11: apply_grace_criteria is idempotent

\* the grade, the graced flag and the grade point of every row, in order
GraceOutcome(rows) ==
    [i \in DOMAIN rows |->
        <<rows[i].student_id, rows[i].subject_code, rows[i].Final_Grade,
          rows[i].is_graced, rows[i].Grade_Point>>]

\* C11: after grace has run again on its own output (any number of times),
\* final_df is what the first run produced from all_results: no Final_Grade,
\* no graced flag and no grade point differs; and every row's grade is the
\* grade it had before grace, or was F before grace and is D* now
C11_GraceIdempotent ==
    /\ pc = "regraced" =>
          /\ final_df = apply_grace_criteria(all_results)
          /\ GraceOutcome(final_df) = GraceOutcome(apply_grace_criteria(all_results))
    /\ AfterGrace =>
          \A sid \in Students : \A i \in DOMAIN Before(sid) :
              \/ After(sid)[i].Final_Grade = Before(sid)[i].Final_Grade
              \/ Before(sid)[i].Final_Grade = "F" /\ After(sid)[i].Final_Grade = "D*"

\* grace has run twice; one student was graced and still is, another student
\* has more than two candidate subjects and still has every F
C11_Witness ==
    /\ pc = "regraced"
    /\ \E sid \in Students : \E i \in DOMAIN Before(sid) :
          /\ Before(sid)[i].Final_Grade = "F"
          /\ After(sid)[i].Final_Grade = "D*" /\ After(sid)[i].is_graced
    /\ \E sid \in Students :
          /\ Cardinality(Candidates(sid)) > 2
          /\ PassedEveryEse(sid)
          /\ \A i \in Candidates(sid) : After(sid)[i].Final_Grade = "F"

\* ---------------------------------------------------------------------------
\* C12: the five-student Theory scenario

\* process_results has run on the five sample rows with Theory, M = 100, ESE_M = 60
SampleGraded ==
    /\ ver = "app" /\ pc = "done"
    /\ sidebar = [course_type |-> "Theory", max_marks |-> 100, ese_max_marks |-> 60]
    /\ [i \in DOMAIN df |-> <<df[i].id, df[i].marks, df[i].attendance>>]
         = << <<1, 82, 90>>, <<2, 65, 85>>, <<3, 45, 80>>, <<4, 32, 76>>, <<5, 91, 95>> >>
    /\ [i \in DOMAIN df |-> df[i].ese_marks]
         = << <<"4", "0">>, <<"3", "0">>, <<"A", "B">>, <<"1", "0">>, <<"5", "0">> >>

\* the grade of the student with the given id
GradeOf(id) == (CHOOSE r \in {all_results[i] : i \in DOMAIN all_results} : r.id = id).Final_Grade

SampleTable == IsFixedTable(boundaries[1].bounds, "Theory")

\* C12 as stated: in the scenario the boundaries are the Theory table and the
\* grades are student1 B+, student2 C+, student3 Z, student4 F, student5 A+
C12_ScenarioAsStated ==
    SampleGraded =>
        /\ SampleTable
        /\ GradeOf(1) = "B+" /\ GradeOf(2) = "C+" /\ GradeOf(3) = "Z"
        /\ GradeOf(4) = "F" /\ GradeOf(5) = "A+"

\* C12 amended: in the scenario the boundaries are the Theory table
\* {A+ 90, A 80, B+ 72, B 64, C+ 56, C 48, D 40} and the grades are
\* student1 (82) A, student2 (65) B, student3 Z, student4 F, student5 (91) A+
C12_Scenario ==
    SampleGraded =>
        /\ SampleTable
        /\ Len(all_results) = 5
        /\ GradeOf(1) = "A" /\ GradeOf(2) = "B" /\ GradeOf(3) = "Z"
        /\ GradeOf(4) = "F" /\ GradeOf(5) = "A+"

\* the scenario has been graded, by the absolute method
C12_Witness == SampleGraded /\ method = "Absolute Grading (Count < 30)" /\ Len(all_results) = 5

====
